---- MODULE Spec2Model ----
(***************************************************************************)
(* A model of sportypy's BaseSurface (_base_classes/_base_surface.py):     *)
(* the feature expander _initialize_feature, the coordinate conversion     *)
(* convert_xy and the display-range computation set_plot_display_range.    *)
(*                                                                         *)
(* Python dictionaries are functions over a set of string keys, lists and  *)
(* tuples are sequences, and an object that a dictionary only refers to (a *)
(* mutable value nested in the parameters) is a cell of `heap`.            *)
(* Coordinates are integers.                                               *)
(***************************************************************************)
EXTENDS Integers, Sequences, FiniteSets, TLC

\* The longest anchor list a template carries.
MaxAnchors == 3

\* The number of _initialize_feature calls one behaviour makes.
MaxCalls == 1

\* The number of in-place mutations a caller makes to the instances' parameters.
MaxMutations == 1

VARIABLES
    x_trans,             \* self.x_trans
    y_trans,             \* self.y_trans
    _rotation,           \* self._rotation
    _feature_xlim,       \* self._feature_xlim
    _feature_ylim,       \* self._feature_ylim
    _features,           \* self._features
    _surface_constraint, \* self._surface_constraint, as its centered polygon
    _display_ranges,     \* self._display_ranges
    heap,                \* the objects that parameter dictionaries refer to
    params,              \* the caller's dictionary last passed to _initialize_feature
    ax,                  \* the limits set on the matplotlib Axes
    call,                \* the last call: its arguments, its locals, what it raised
    calls                \* how many calls the behaviour has made

vars == <<x_trans, y_trans, _rotation, _feature_xlim, _feature_ylim, _features,
          _surface_constraint, _display_ranges, heap, params, ax, call, calls>>

surface == <<x_trans, y_trans, _rotation, _feature_xlim, _feature_ylim,
             _surface_constraint, _display_ranges>>

----------------------------------------------------------------------------
(* Python values *)

\* None
None == [type |-> "NoneType"]

\* a float
Float(v) == [type |-> "float", value |-> v]

\* a list (or tuple) of numbers
List(s) == [type |-> "list", value |-> s]

\* {}
EmptyDict == [k \in {} |-> None]

\* key in d
Has(d, k) == k \in DOMAIN d

\* d.get(k, default)
Get(d, k, default) == IF Has(d, k) THEN d[k] ELSE default

\* d after d.pop(k, default): the key is gone
Without(d, k) == [j \in DOMAIN d \ {k} |-> d[j]]

\* s[::-1]
Reversed(s) == [i \in 1..Len(s) |-> s[Len(s) + 1 - i]]

----------------------------------------------------------------------------
(* _initialize_feature *)

\* A variant of PopClass: params.pop('class', Default), which never raises.
PopClassDefault(p) ==
    [raised |-> "none", value |-> Get(p, "class", "Default")]

\* feature_class = params.pop('class'): a KeyError when the key is missing
PopClass(p) ==
    IF Has(p, "class")
    THEN [raised |-> "none", value |-> p["class"]]
    ELSE [raised |-> "KeyError", value |-> "class"]

\* np.ravel(params.get(key, [0])): the anchor lists of the model are flat
CenterOfFeature(p, key) == Get(p, key, <<0>>)

\* A variant of Reflections: the flag is not looked at.
ReflectionsAlways(p, key) == <<FALSE, TRUE>>

\* [False, True] if params.pop(key, False) else [False]
Reflections(p, key) ==
    IF Get(p, key, FALSE) THEN <<FALSE, TRUE>> ELSE <<FALSE>>

\* feature_params = dict(params), then the four entries the loop body sets.
\* dict() copies the entries: an entry that refers to an object of the heap
\* still refers to the same object
FeatureParams(p, x, y, x_reflection, y_reflection) ==
    [k \in DOMAIN p \cup {"x_anchor", "y_anchor", "reflect_x", "reflect_y"} |->
        CASE k = "x_anchor" -> IF x_reflection THEN -1 * x ELSE x
          [] k = "y_anchor" -> IF y_reflection THEN -1 * y ELSE y
          [] k = "reflect_x" -> x_reflection
          [] k = "reflect_y" -> y_reflection
          [] OTHER -> p[k]]

\* feature_class(**feature_params): the instance holds what it was given
Instantiate(feature_class, feature_params) ==
    [class |-> feature_class, kwargs |-> feature_params]

\* for y_reflection in y_reflections: the instances the innermost loop appends
RECURSIVE ForYReflection(_, _, _, _, _, _)
ForYReflection(feature_class, p, x, y, x_reflection, y_reflections) ==
    IF y_reflections = <<>> THEN <<>>
    ELSE <<Instantiate(feature_class,
                       FeatureParams(p, x, y, x_reflection, Head(y_reflections)))>>
         \o ForYReflection(feature_class, p, x, y, x_reflection,
                           Tail(y_reflections))

\* for x_reflection in x_reflections
RECURSIVE ForXReflection(_, _, _, _, _, _)
ForXReflection(feature_class, p, x, y, x_reflections, y_reflections) ==
    IF x_reflections = <<>> THEN <<>>
    ELSE ForYReflection(feature_class, p, x, y, Head(x_reflections), y_reflections)
         \o ForXReflection(feature_class, p, x, y, Tail(x_reflections),
                           y_reflections)

\* for y in center_of_feature_y
RECURSIVE ForY(_, _, _, _, _, _)
ForY(feature_class, p, x, cy, x_reflections, y_reflections) ==
    IF cy = <<>> THEN <<>>
    ELSE ForXReflection(feature_class, p, x, Head(cy), x_reflections, y_reflections)
         \o ForY(feature_class, p, x, Tail(cy), x_reflections, y_reflections)

\* for x in center_of_feature_x
RECURSIVE ForX(_, _, _, _, _, _)
ForX(feature_class, p, cx, cy, x_reflections, y_reflections) ==
    IF cx = <<>> THEN <<>>
    ELSE ForY(feature_class, p, Head(cx), cy, x_reflections, y_reflections)
         \o ForX(feature_class, p, Tail(cx), cy, x_reflections, y_reflections)

\* A variant of NewFeatures: each instance is put at the front of the list
\* instead of appended.
NewFeaturesPrepended(feature_class, p, cx, cy, x_reflections, y_reflections) ==
    Reversed(ForX(feature_class, p, cx, cy, x_reflections, y_reflections))

\* the four nested for loops: the instances in the order they are appended
NewFeatures(feature_class, p, cx, cy, x_reflections, y_reflections) ==
    ForX(feature_class, p, cx, cy, x_reflections, y_reflections)

\* what one call of _initialize_feature(p) appends, and the caller's dictionary
\* after it (the three pops remove their keys from it)
InitializeFeatureResult(p) ==
    LET popped == PopClass(p)
        p1 == Without(p, "class")
        center_of_feature_x == CenterOfFeature(p1, "x_anchor")
        center_of_feature_y == CenterOfFeature(p1, "y_anchor")
        x_reflections == Reflections(p1, "reflect_x")
        p2 == Without(p1, "reflect_x")
        y_reflections == Reflections(p2, "reflect_y")
        p3 == Without(p2, "reflect_y")
    IN  IF popped.raised # "none"
        THEN [raised |-> popped.raised, appended |-> <<>>, params |-> p]
        ELSE [raised |-> "none",
              appended |-> NewFeatures(popped.value, p3,
                                       center_of_feature_x, center_of_feature_y,
                                       x_reflections, y_reflections),
              params |-> p3]

\* The templates a caller passes: every entry but the shared parameters is
\* optional. 'color' is a plain value, 'opts' refers to the object `ref`.
Optional(key, values) == {EmptyDict} \cup {key :> v : v \in values}

XAnchors == {[i \in 1..n |-> 10 * i] : n \in 0..MaxAnchors}

YAnchors == {[i \in 1..n |-> 5 * i] : n \in 0..MaxAnchors}

Templates(ref) ==
    {c @@ xa @@ ya @@ rx @@ ry @@ [color |-> "red", opts |-> ref] :
        c \in {"class" :> "Circle"},
        xa \in Optional("x_anchor", XAnchors),
        ya \in Optional("y_anchor", YAnchors),
        rx \in Optional("reflect_x", BOOLEAN),
        ry \in {"reflect_y" :> v : v \in BOOLEAN}}
    \cup
    {xa @@ ya @@ rx @@ [color |-> "red", opts |-> ref] :
        xa \in Optional("x_anchor", XAnchors),
        ya \in Optional("y_anchor", YAnchors),
        rx \in Optional("reflect_x", {TRUE})}

\* self._initialize_feature(p), p a dictionary the caller has just built around
\* a new 'opts' object
InitializeFeature(p) ==
    /\ calls < MaxCalls
    /\ \E r \in {InitializeFeatureResult(p)} :
        /\ _features' = _features \o r.appended
        /\ params' = r.params
        /\ call' = [op |-> "_initialize_feature", raised |-> r.raised,
                    params |-> p, features |-> _features]
    /\ calls' = calls + 1
    /\ heap' = Append(heap, "solid")
    /\ UNCHANGED <<surface, ax>>

\* the in-place mutations made so far
Mutations ==
    Cardinality({i \in 1..Len(_features) : _features[i].kwargs.color # "red"})
    + Cardinality({r \in 1..Len(heap) : heap[r] # "solid"})

\* The caller rebinds an entry of the parameters that instance i holds.
MutateEntry(i) ==
    /\ Mutations < MaxMutations
    /\ _features' = [_features EXCEPT ![i].kwargs.color = "blue"]
    /\ call' = [op |-> "mutate", raised |-> "none", target |-> i,
                features |-> _features, heap |-> heap, params |-> params]
    /\ UNCHANGED <<surface, heap, params, ax, calls>>

\* The caller mutates, in place, the object that instance i's 'opts' entry
\* refers to.
MutateNested(i) ==
    /\ Mutations < MaxMutations
    /\ heap' = [heap EXCEPT ![_features[i].kwargs.opts] = "dashed"]
    /\ call' = [op |-> "mutate", raised |-> "none", target |-> i,
                features |-> _features, heap |-> heap, params |-> params]
    /\ UNCHANGED <<surface, _features, params, ax, calls>>

\* __init__
Constructed ==
    /\ x_trans = 0
    /\ y_trans = 0
    /\ _rotation = None
    /\ _feature_xlim = None
    /\ _feature_ylim = None
    /\ _surface_constraint = None
    /\ _display_ranges = None
    /\ ax = None
    /\ calls = 0

\* The template of a surface's catalog that a subclass's __init__ has already
\* expanded when the behaviour starts: a spot mirrored into the four quadrants.
Catalog(ref) ==
    {[class |-> "Circle", x_anchor |-> <<20>>, y_anchor |-> <<15>>,
      reflect_x |-> TRUE, reflect_y |-> TRUE, color |-> "red", opts |-> ref]}

\* __init__ alone, or __init__ and the expansion of the catalog's template
InitExpand ==
    /\ Constructed
    /\ \/ /\ _features = <<>>
          /\ heap = <<>>
          /\ params = EmptyDict
          /\ call = [op |-> "__init__", raised |-> "none"]
       \/ \E p \in Catalog(1) :
             LET r == InitializeFeatureResult(p) IN
             /\ _features = r.appended
             /\ heap = <<"solid">>
             /\ params = r.params
             /\ call = [op |-> "_initialize_feature", raised |-> r.raised,
                        params |-> p, features |-> <<>>]

NextExpand == \E p \in Templates(Len(heap) + 1) : InitializeFeature(p)

SpecExpand == InitExpand /\ [][NextExpand]_vars

NextIsolation ==
    \/ \E p \in Templates(Len(heap) + 1) : InitializeFeature(p)
    \/ \E i \in 1..Len(_features) : MutateEntry(i)
    \/ \E i \in 1..Len(_features) : MutateNested(i)

SpecIsolation == InitExpand /\ [][NextIsolation]_vars

----------------------------------------------------------------------------
(* convert_xy and set_plot_display_range *)

\* np.min and np.max of a non-empty array
Min(s) == CHOOSE v \in {s[i] : i \in DOMAIN s} : \A i \in DOMAIN s : v <= s[i]

Max(s) == CHOOSE v \in {s[i] : i \in DOMAIN s} : \A i \in DOMAIN s : v >= s[i]

\* array[mask]: the entries the boolean mask selects, in order
RECURSIVE Select(_, _)
Select(s, mask) ==
    IF s = <<>> THEN <<>>
    ELSE (IF Head(mask) THEN <<Head(s)>> ELSE <<>>) \o Select(Tail(s), Tail(mask))

\* array + scalar and array - scalar, elementwise
Plus(s, d) == [i \in 1..Len(s) |-> s[i] + d]

Minus(s, d) == [i \in 1..Len(s) |-> s[i] - d]

\* tuple(zip(x, y)): as many pairs as the shorter of the two has entries
Zip(x, y) ==
    LET n == IF Len(x) <= Len(y) THEN Len(x) ELSE Len(y)
    IN  [i \in 1..n |-> <<x[i], y[i]>>]

\* an Affine2D().rotate_deg(deg), for the right angles, which keep integers
Affine2D(deg) == [type |-> "Affine2D", deg |-> deg]

\* self._rotation.transform(points): the counterclockwise rotation of each
\* (x, y) pair about the origin
Transform(rotation, points) ==
    [i \in 1..Len(points) |->
        LET px == points[i][1]
            py == points[i][2]
        IN  CASE rotation.deg = 0 -> <<px, py>>
              [] rotation.deg = 90 -> <<-py, px>>
              [] rotation.deg = 180 -> <<-px, -py>>
              [] rotation.deg = 270 -> <<py, -px>>]

\* `if v:` for the values the surface's attributes take: None is false, a
\* float is true unless it is zero, a list is true unless it is empty, any other
\* object (a transform) is true
Truthy(v) ==
    CASE v.type = "NoneType" -> FALSE
      [] v.type = "float" -> v.value # 0
      [] v.type = "list" -> v.value # <<>>
      [] OTHER -> TRUE

\* np.concatenate((x, v)): a zero-dimensional operand (a float) is a ValueError
Concatenate(x, v) ==
    IF v.type = "list"
    THEN [raised |-> "none", value |-> x \o v.value]
    ELSE [raised |-> "ValueError", value |-> x]

\* A variant of ConvertXY: the translation is not subtracted.
ConvertXYNoShift(x, y) ==
    IF Truthy(_rotation)
    THEN LET xy == Transform(_rotation, Zip(x, y))
         IN  [x |-> [i \in 1..Len(xy) |-> xy[i][1]],
              y |-> [i \in 1..Len(xy) |-> xy[i][2]]]
    ELSE [x |-> x, y |-> y]

\* convert_xy(x, y)
ConvertXY(x, y) ==
    LET x1 == Minus(x, x_trans)
        y1 == Minus(y, y_trans)
    IN  IF Truthy(_rotation)
        THEN LET xy == Transform(_rotation, Zip(x1, y1))
             IN  [x |-> [i \in 1..Len(xy) |-> xy[i][1]],
                  y |-> [i \in 1..Len(xy) |-> xy[i][2]]]
        ELSE [x |-> x1, y |-> y1]

\* self._get_plot_range_limits(display_range, xlim, ylim): the bounds of the
\* named preset, those of 'full' for a name that is no preset, each axis
\* replaced by the caller's explicit bounds
GetPlotRangeLimits(display_range, xlim, ylim) ==
    LET preset == IF Has(_display_ranges, display_range)
                  THEN _display_ranges[display_range]
                  ELSE _display_ranges["full"]
    IN  [xlim |-> IF xlim.type = "NoneType" THEN preset.xlim ELSE xlim.value,
         ylim |-> IF ylim.type = "NoneType" THEN preset.ylim ELSE ylim.value]

\* the mask over the constraint's vertices: inside the window on both axes,
\* the bounds included
Mask(constraint_df, xlim, ylim) ==
    [i \in 1..Len(constraint_df.x) |->
        /\ constraint_df.x[i] >= xlim[1]
        /\ constraint_df.x[i] <= xlim[2]
        /\ constraint_df.y[i] >= ylim[1]
        /\ constraint_df.y[i] <= ylim[2]]

\* A variant of WindowX: the window's bounds only when the mask selects nothing.
WindowXUnlessMasked(masked, xlim) == IF masked = <<>> THEN xlim \o xlim ELSE masked

\* x = np.concatenate((constraint_df['x'][mask], xlim, xlim))
WindowX(masked, xlim) == masked \o xlim \o xlim

\* y = np.concatenate((constraint_df['y'][mask], ylim, ylim[::-1]))
WindowY(masked, ylim) == masked \o ylim \o Reversed(ylim)

\* display_range == 'full'
IsFull(display_range) == display_range = "full"

\* The body of set_plot_display_range: its locals, what it raised, and the
\* limits it set on the Axes (those it found there when it raised before).
SetPlotDisplayRangeResult(display_range, xlim_arg, ylim_arg) ==
    LET lim == GetPlotRangeLimits(display_range, xlim_arg, ylim_arg)
        xlim == lim.xlim
        ylim == lim.ylim
        constraint_df == _surface_constraint
        mask == Mask(constraint_df, xlim, ylim)
        x0 == WindowX(Select(constraint_df.x, mask), xlim)
        y0 == WindowY(Select(constraint_df.y, mask), ylim)
        addx == IsFull(display_range) /\ Truthy(_feature_xlim)
        cx == IF addx THEN Concatenate(x0, _feature_xlim)
              ELSE [raised |-> "none", value |-> x0]
        addy == /\ IsFull(display_range)
                /\ cx.raised = "none"
                /\ Truthy(_feature_ylim)
        cy == IF addy THEN Concatenate(y0, _feature_ylim)
              ELSE [raised |-> "none", value |-> y0]
        raised == IF cx.raised # "none" THEN cx.raised ELSE cy.raised
        x == cx.value
        y == cy.value
        conv == ConvertXY(Plus(x, x_trans), Plus(y, y_trans))
    IN  [raised |-> raised, xlim |-> xlim, ylim |-> ylim, mask |-> mask,
         x |-> x, y |-> y,
         xs |-> IF raised = "none" THEN conv.x ELSE <<>>,
         ys |-> IF raised = "none" THEN conv.y ELSE <<>>,
         ax |-> IF raised = "none"
                THEN [type |-> "Axes",
                      xlim |-> <<Min(conv.x), Max(conv.x)>>,
                      ylim |-> <<Min(conv.y), Max(conv.y)>>]
                ELSE ax]

\* self.set_plot_display_range(ax, display_range, xlim, ylim)
SetPlotDisplayRange(display_range, xlim_arg, ylim_arg) ==
    \E r \in {SetPlotDisplayRangeResult(display_range, xlim_arg, ylim_arg)} :
    /\ ax' = r.ax
    /\ call' = [op |-> "set_plot_display_range", raised |-> r.raised,
                display_range |-> display_range,
                xlim_arg |-> xlim_arg, ylim_arg |-> ylim_arg,
                xlim |-> r.xlim, ylim |-> r.ylim, mask |-> r.mask,
                x |-> r.x, y |-> r.y, xs |-> r.xs, ys |-> r.ys]
    /\ UNCHANGED <<surface, _features, heap, params, calls>>

\* The boundary polygons: the rectangle of the scenario, and a rink with cut
\* corners.
Square == [x |-> <<-50, 50, 50, -50>>, y |-> <<-25, -25, 25, 25>>]

Rink ==
    [x |-> <<-50, -40, 40, 50, 50, 40, -40, -50>>,
     y |-> <<-15, -25, -25, -15, 15, 25, 25, 15>>]

\* The presets a sport's surface declares.
DisplayRanges ==
    ("full" :> [xlim |-> <<-50, 50>>, ylim |-> <<-25, 25>>])
    @@ ("offense" :> [xlim |-> <<0, 50>>, ylim |-> <<-25, 25>>])

\* the explicit bounds a caller passes
XLimArgs == {None, List(<<-100, 100>>), List(<<-45, 10>>), List(<<60, 80>>)}

YLimArgs == {None, List(<<-100, 100>>), List(<<-20, 20>>)}

\* A sport's surface as its subclass's __init__ and draw() leave it.
InitRange ==
    /\ \E t \in {<<0, 0>>, <<-60, -30>>} : x_trans = t[1] /\ y_trans = t[2]
    /\ _rotation \in {None, Affine2D(0), Affine2D(90)}
    /\ _feature_xlim \in {None, Float(0), Float(60), List(<<-60, 60>>)}
    /\ _feature_ylim \in {None, Float(0), Float(30), List(<<-30, 30>>)}
    /\ _surface_constraint \in {Square, Rink}
    /\ _display_ranges = DisplayRanges
    /\ _features = <<>>
    /\ heap = <<>>
    /\ params = EmptyDict
    /\ ax = None
    /\ call = [op |-> "__init__", raised |-> "none"]
    /\ calls = 0

NextRange ==
    \E display_range \in {"full", "offense", "nonexistent"},
       xlim_arg \in XLimArgs, ylim_arg \in YLimArgs :
        SetPlotDisplayRange(display_range, xlim_arg, ylim_arg)

SpecRange == InitRange /\ [][NextRange]_vars

----------------------------------------------------------------------------
(* The expander's properties, under SpecExpand and SpecIsolation *)

\* the last call was _initialize_feature and it returned
Expanded == call.op = "_initialize_feature" /\ call.raised = "none"

\* the instances the last call appended
Appended == SubSeq(_features, Len(call.features) + 1, Len(_features))

\* |anchor|: the length of the template's anchor list, 1 for the default [0]
AnchorCount(p, key) == IF Has(p, key) THEN Len(p[key]) ELSE 1

\* 2 if the template asks for the reflection, else 1
ReflectCount(p, key) == IF Has(p, key) /\ p[key] THEN 2 ELSE 1

\* C1: one call of the expander appends exactly
\* |anchor_x| * |anchor_y| * (2 if reflect_x else 1) * (2 if reflect_y else 1)
\* instances and leaves the instances already in the list as they were.
C1_ExpansionCardinality ==
    Expanded =>
        /\ Len(_features) = Len(call.features)
              + AnchorCount(call.params, "x_anchor")
                * AnchorCount(call.params, "y_anchor")
                * ReflectCount(call.params, "reflect_x")
                * ReflectCount(call.params, "reflect_y")
        /\ SubSeq(_features, 1, Len(call.features)) = call.features

\* C1's case: two x anchors, three y anchors, reflect_x = True and
\* reflect_y = False, expanded onto a list that already holds instances, has
\* appended twelve.
C1_Witness ==
    /\ Expanded
    /\ call.features # <<>>
    /\ Has(call.params, "x_anchor") /\ Len(call.params.x_anchor) = 2
    /\ Has(call.params, "y_anchor") /\ Len(call.params.y_anchor) = 3
    /\ Has(call.params, "reflect_x") /\ call.params.reflect_x
    /\ Has(call.params, "reflect_y") /\ ~call.params.reflect_y
    /\ Len(Appended) = 12

\* the anchors and the reflection flags that C2 enumerates
AnchorsOf(p, key) == IF Has(p, key) THEN p[key] ELSE <<0>>

FlagsOf(p, key) == IF Has(p, key) /\ p[key] THEN <<FALSE, TRUE>> ELSE <<FALSE>>

\* C2: the appended instances are the nested enumeration anchor_x (outermost),
\* anchor_y, x-reflection flag, y-reflection flag (innermost), in that order:
\* the instance at each position of that enumeration has the center
\* (-x if x_reflection else x, -y if y_reflection else y) and carries the two
\* flags.
C2_ExpansionOrder ==
    Expanded =>
        LET xs == AnchorsOf(call.params, "x_anchor")
            ys == AnchorsOf(call.params, "y_anchor")
            xr == FlagsOf(call.params, "reflect_x")
            yr == FlagsOf(call.params, "reflect_y")
        IN  /\ Len(Appended) = Len(xs) * Len(ys) * Len(xr) * Len(yr)
            /\ \A i \in 1..Len(xs), j \in 1..Len(ys),
                  a \in 1..Len(xr), b \in 1..Len(yr) :
                 LET k == (((i - 1) * Len(ys) + (j - 1)) * Len(xr) + (a - 1))
                             * Len(yr) + b
                     f == Appended[k].kwargs
                 IN  /\ f.x_anchor = IF xr[a] THEN -xs[i] ELSE xs[i]
                     /\ f.y_anchor = IF yr[b] THEN -ys[j] ELSE ys[j]
                     /\ f.reflect_x = xr[a]
                     /\ f.reflect_y = yr[b]

\* C2's case: the anchor (10, 5) with reflect_x = True and reflect_y = False has
\* yielded the centers (10, 5) and then (-10, 5), and no other.
C2_Witness ==
    /\ Expanded
    /\ Has(call.params, "x_anchor") /\ call.params.x_anchor = <<10>>
    /\ Has(call.params, "y_anchor") /\ call.params.y_anchor = <<5>>
    /\ Has(call.params, "reflect_x") /\ call.params.reflect_x
    /\ ~call.params.reflect_y
    /\ Len(Appended) = 2
    /\ Appended[1].kwargs.x_anchor = 10 /\ Appended[1].kwargs.y_anchor = 5
    /\ Appended[2].kwargs.x_anchor = -10 /\ Appended[2].kwargs.y_anchor = 5

\* the template's anchor on this axis is absent or an empty sequence
Defaulted(p, key) == ~Has(p, key) \/ p[key] = <<>>

\* C3: a template whose anchor_x (anchor_y) is absent or empty is expanded with
\* the single anchor 0 on that axis, so the expansion appends at least one
\* instance, each centered at 0 on that axis.
C3_EmptyAnchorDefaultsToZero ==
    Expanded =>
        /\ (Defaulted(call.params, "x_anchor") \/ Defaulted(call.params, "y_anchor"))
              => Len(Appended) >= 1
        /\ Defaulted(call.params, "x_anchor")
              => \A k \in 1..Len(Appended) : Appended[k].kwargs.x_anchor = 0
        /\ Defaulted(call.params, "y_anchor")
              => \A k \in 1..Len(Appended) : Appended[k].kwargs.y_anchor = 0

\* a parameter dictionary as it reads: each entry's value, the 'opts' entry
\* followed to the object it refers to
Deref(d, h) == [k \in DOMAIN d |-> IF k = "opts" THEN h[d[k]] ELSE d[k]]

\* C4: mutating the shared parameters that one instance holds (an entry, or a
\* mutable value nested in them) changes neither the shared parameters of a
\* sibling instance of the same template nor the template's own parameters.
C4_ParameterIsolation ==
    call.op = "mutate" =>
        LET t == call.features[call.target].kwargs.opts
        IN  /\ \A j \in 1..Len(_features) :
                 (j # call.target /\ call.features[j].kwargs.opts = t)
                    => Deref(_features[j].kwargs, heap)
                         = Deref(call.features[j].kwargs, call.heap)
            /\ (Has(call.params, "opts") /\ call.params.opts = t)
                    => Deref(params, heap) = Deref(call.params, call.heap)

\* C5: expanding a template without the 'class' entry ends in an error and
\* appends nothing: the feature list is as it was before the call.
C5_MissingClassAppendsNothing ==
    (call.op = "_initialize_feature" /\ ~Has(call.params, "class")) =>
        /\ call.raised = "KeyError"
        /\ _features = call.features

\* C5's case: a template without 'class' was passed to a surface that already
\* holds instances.
C5_Witness ==
    /\ call.op = "_initialize_feature"
    /\ ~Has(call.params, "class")
    /\ call.features # <<>>
    /\ call.raised # "none"

----------------------------------------------------------------------------
(* The display range's properties, under SpecRange *)

\* the last call was set_plot_display_range
Ranged == call.op = "set_plot_display_range"

\* the surface is neither rotated nor translated
Untransformed == _rotation.type = "NoneType" /\ x_trans = 0 /\ y_trans = 0

\* C6: on the same surface, set_plot_display_range with a name that is no
\* preset does not fail and applies the limits that the same call with 'full'
\* applies.
C6_RangeFallback ==
    (Ranged /\ call.display_range = "nonexistent") =>
        LET full == SetPlotDisplayRangeResult("full", call.xlim_arg, call.ylim_arg)
        IN  /\ call.raised = "none"
            /\ full.raised = "none" => ax = full.ax

\* every vertex of the boundary polygon lies strictly inside the window
StrictlyInside(constraint_df, xlim, ylim) ==
    \A i \in 1..Len(constraint_df.x) :
        /\ xlim[1] < constraint_df.x[i] /\ constraint_df.x[i] < xlim[2]
        /\ ylim[1] < constraint_df.y[i] /\ constraint_df.y[i] < ylim[2]

\* the bounding box of the polygon's vertices
BoundingBox(constraint_df) ==
    [type |-> "Axes",
     xlim |-> <<Min(constraint_df.x), Max(constraint_df.x)>>,
     ylim |-> <<Min(constraint_df.y), Max(constraint_df.y)>>]

\* no outer hard bounds are declared
NoOuterBounds ==
    _feature_xlim.type = "NoneType" /\ _feature_ylim.type = "NoneType"

\* C7, as claimed: with no rotation, no translation and no outer hard bounds, a
\* window that strictly contains every vertex of the boundary polygon yields
\* the bounding box of the polygon's vertices.
C7_LimitsAreBoundingBox ==
    (/\ Ranged
     /\ Untransformed
     /\ NoOuterBounds
     /\ StrictlyInside(_surface_constraint, call.xlim, call.ylim))
        => ax = BoundingBox(_surface_constraint)

\* C7, amended: with no rotation, no translation and no outer hard bounds, a
\* window that strictly contains every vertex of the boundary polygon yields
\* the window itself.
C7_LimitsAreWindow ==
    (/\ Ranged
     /\ Untransformed
     /\ NoOuterBounds
     /\ StrictlyInside(_surface_constraint, call.xlim, call.ylim))
        => /\ call.raised = "none"
           /\ ax = [type |-> "Axes", xlim |-> call.xlim, ylim |-> call.ylim]

\* C7's case: the square, the request xlim = (-100, 100), ylim = (-100, 100),
\* no rotation, no translation and no outer bounds; every vertex passed the
\* mask and the limits were applied.
C7_Witness ==
    /\ Ranged
    /\ Untransformed
    /\ NoOuterBounds
    /\ _surface_constraint = Square
    /\ call.xlim = <<-100, 100>>
    /\ call.ylim = <<-100, 100>>
    /\ \A i \in 1..Len(call.mask) : call.mask[i]
    /\ ax.type = "Axes"

\* the mask of the last call selected no vertex
MaskEmpty == \A i \in 1..Len(call.mask) : ~call.mask[i]

\* the last call unioned no outer bound into its coordinates
NothingUnioned == Len(call.x) = Len(Select(_surface_constraint.x, call.mask)) + 4
                  /\ Len(call.y) = Len(Select(_surface_constraint.y, call.mask)) + 4

\* the limits that the four corners of the window give
CornerLimits(xlim, ylim) ==
    LET c == ConvertXY(Plus(xlim \o xlim, x_trans),
                       Plus(ylim \o Reversed(ylim), y_trans))
    IN  [type |-> "Axes",
         xlim |-> <<Min(c.x), Max(c.x)>>,
         ylim |-> <<Min(c.y), Max(c.y)>>]

\* C8: for every requested window set_plot_display_range applies a limit pair
\* with xmin <= xmax and ymin <= ymax; when the mask selects no vertex (and no
\* outer bound is unioned) the limits are those of the window's four corners.
C8_ClipNonEmpty ==
    Ranged =>
        /\ call.raised = "none"
        /\ ax.type = "Axes"
        /\ ax.xlim[1] <= ax.xlim[2]
        /\ ax.ylim[1] <= ax.ylim[2]
        /\ (MaskEmpty /\ NothingUnioned) => ax = CornerLimits(call.xlim, call.ylim)

\* the outer bounds that an attribute declares
Declared(v) ==
    CASE v.type = "float" -> {v.value}
      [] v.type = "list" -> {v.value[i] : i \in DOMAIN v.value}
      [] OTHER -> {}

\* C9: with the 'full' preset and no rotation, the call does not fail and every
\* outer bound declared on an axis lies within the limits applied on that axis.
C9_OuterBoundsUnioned ==
    (Ranged /\ call.display_range = "full" /\ _rotation.type = "NoneType") =>
        /\ call.raised = "none"
        /\ \A b \in Declared(_feature_xlim) : ax.xlim[1] <= b /\ b <= ax.xlim[2]
        /\ \A b \in Declared(_feature_ylim) : ax.ylim[1] <= b /\ b <= ax.ylim[2]

\* C10, as claimed: whatever the translation and the rotation,
\* convert_xy(x + x_trans, y + y_trans) returns (x, y).
C10_RoundTripAnyRotation ==
    (Ranged /\ call.raised = "none") => call.xs = call.x /\ call.ys = call.y

\* C10, amended: whatever the translation, on a surface with no rotation
\* convert_xy(x + x_trans, y + y_trans) returns (x, y), and the limits applied
\* are the min and max of the unioned coordinates.
C10_RoundTripNoRotation ==
    (Ranged /\ call.raised = "none" /\ _rotation.type = "NoneType") =>
        /\ call.xs = call.x
        /\ call.ys = call.y
        /\ ax.xlim = <<Min(call.x), Max(call.x)>>
        /\ ax.ylim = <<Min(call.y), Max(call.y)>>

\* C10's case: a translated surface with no rotation, and a call that unioned
\* polygon vertices, the window's corners and outer bounds and applied limits.
C10_Witness ==
    /\ Ranged
    /\ call.raised = "none"
    /\ _rotation.type = "NoneType"
    /\ x_trans # 0
    /\ y_trans # 0
    /\ Len(call.x) > Len(call.y)
    /\ Len(call.y) > 4

====
